---- MODULE Spec2Model ----
(***************************************************************************)
(* Model of update_portfolio.py: one run of the script, from the module-   *)
(* level secret check through main(): get_access_token, get_portfolio,     *)
(* the STOCK total, portfolio_to_df and df_to_html.                        *)
(*                                                                         *)
(* Strings that the code builds and compares (the formatted value, the     *)
(* signed percentage) are sequences of one-character strings; amounts are  *)
(* integers in thousandths (mills) so that the formatting rounds.          *)
(***************************************************************************)
EXTENDS Integers, Sequences, FiniteSets, TLC

\* Longest 'positions' array a portfolio response carries.
MaxLen == 2

----------------------------------------------------------------------------
(* Inputs *)

\* os.getenv("PUBLIC_SECRET"): None when unset, else the string.
Secrets ==
    { [set |-> FALSE, val |-> ""], [set |-> TRUE, val |-> ""],
      [set |-> TRUE, val |-> "s3cr3t"] }

\* Process-local timezones, as whole-hour offsets from UTC.
LocalZones == {-8, 9}

\* Symbols of the instruments; the i-th position holds the i-th one.
Symbols == <<"AAPL", "MSFT", "NVDA", "TSLA", "VOO">>

\* p['currentValue'], in mills (thousandths of a dollar).
Values == {500004, 999000, 1000000}

\* p['costBasis']['gainPercentage'] as the API's decimal string: a sign and
\* a magnitude in thousandths of a percent.  "-0.00" is [neg TRUE, mag 0].
\* Magnitudes are multiples of 4, which never sit on a rounding tie.
Gains ==
    { [neg |-> FALSE, mag |-> 0], [neg |-> TRUE, mag |-> 0],
      [neg |-> FALSE, mag |-> 4], [neg |-> TRUE, mag |-> 500] }

\* p['openedAt']: ISO-8601 date, hour and the zone designator.
OpenedAts ==
    { [date |-> <<2023, 5, 1>>, hour |-> 0, zone |-> "Z"],
      [date |-> <<2023, 5, 1>>, hour |-> 23, zone |-> "Z"],
      [date |-> <<2023, 5, 1>>, hour |-> 3, zone |-> "+09:00"] }

PositionData == [currentValue : Values, gain : Gains, openedAt : OpenedAts]

SeqsUpTo(S, n) == UNION { [1..k -> S] : k \in 0..n }

\* portfolio_data['equity']: without a STOCK entry, or with one.
Equities ==
    { << [type |-> "CASH", value |-> "10.00"] >>,
      << [type |-> "CASH", value |-> "10.00"],
         [type |-> "STOCK", value |-> "1234.56"] >>,
      << [type |-> "STOCK", value |-> "0.00"],
         [type |-> "CASH", value |-> "10.00"] >> }

\* The JSON bodies of the portfolio endpoint.  haskey is FALSE when the
\* 'positions' key is absent.
Portfolios ==
    { [haskey |-> TRUE, positions |-> ps, equity |-> e] :
        ps \in SeqsUpTo(PositionData, MaxLen), e \in Equities }
    \cup { [haskey |-> FALSE, positions |-> <<>>, equity |-> e] : e \in Equities }

NoPortfolio == [haskey |-> FALSE, positions |-> <<>>, equity |-> <<>>]

----------------------------------------------------------------------------
(* Python strings and number formatting *)

Digit(d) ==
    CASE d = 0 -> "0" [] d = 1 -> "1" [] d = 2 -> "2" [] d = 3 -> "3"
      [] d = 4 -> "4" [] d = 5 -> "5" [] d = 6 -> "6" [] d = 7 -> "7"
      [] d = 8 -> "8" [] d = 9 -> "9"

\* ord(c) for the characters a formatted amount is made of.
CodePoint(c) ==
    CASE c = "$" -> 36 [] c = "," -> 44 [] c = "." -> 46
      [] c = "0" -> 48 [] c = "1" -> 49 [] c = "2" -> 50 [] c = "3" -> 51
      [] c = "4" -> 52 [] c = "5" -> 53 [] c = "6" -> 54 [] c = "7" -> 55
      [] c = "8" -> 56 [] c = "9" -> 57

\* a < b on Python str: code point by code point, a proper prefix is less.
RECURSIVE StrLess(_, _)
StrLess(a, b) ==
    IF b = <<>> THEN FALSE
    ELSE IF a = <<>> THEN TRUE
    ELSE IF CodePoint(Head(a)) # CodePoint(Head(b))
         THEN CodePoint(Head(a)) < CodePoint(Head(b))
    ELSE StrLess(Tail(a), Tail(b))

\* The decimal digits of n >= 0.
RECURSIVE Digits(_)
Digits(n) == IF n < 10 THEN <<Digit(n)>> ELSE Digits(n \div 10) \o <<Digit(n % 10)>>

\* The ',' option of the format mini-language: groups of three from the right.
RECURSIVE Grouped(_)
Grouped(n) ==
    IF n < 1000 THEN Digits(n)
    ELSE Grouped(n \div 1000) \o <<",">>
         \o <<Digit((n \div 100) % 10), Digit((n \div 10) % 10), Digit(n % 10)>>

\* Rounding of thousandths to hundredths as '.2f' does it (no ties occur
\* on the inputs of this model: no amount ends in 5).
Hundredths(thousandths) == (thousandths + 5) \div 10

\* f"${float(p['currentValue']):,.2f}"
FormatValue(mills) ==
    LET c == Hundredths(mills)
    IN  <<"$">> \o Grouped(c \div 100) \o <<".">>
        \o <<Digit((c \div 10) % 10), Digit(c % 10)>>

\* float(p["costBasis"]["gainPercentage"]): the sign survives on zero.
ParseFloat(g) == [neg |-> g.neg, mag |-> g.mag]

GtZero(x) == ~x.neg /\ x.mag > 0
LtZero(x) == x.neg /\ x.mag > 0

\* f"{val:+.2f}%"
FormatProfit(x) ==
    LET c == Hundredths(x.mag)
    IN  <<IF x.neg THEN "-" ELSE "+">> \o Digits(c \div 100) \o <<".">>
        \o <<Digit((c \div 10) % 10), Digit(c % 10)>> \o <<"%">>

----------------------------------------------------------------------------
(* Dates *)

MonthDays(m) == IF m = 2 THEN 28 ELSE IF m \in {4, 6, 9, 11} THEN 30 ELSE 31

RECURSIVE DaysBefore(_)
DaysBefore(m) == IF m = 1 THEN 0 ELSE DaysBefore(m - 1) + MonthDays(m - 1)

\* Day number within the (non-leap) year of the model's dates, from 0.
DayOfYear(date) == DaysBefore(date[2]) + date[3] - 1

\* The month and day of day number n, searching from month m.
RECURSIVE MonthAndDay(_, _)
MonthAndDay(n, m) ==
    IF n < MonthDays(m) THEN <<m, n + 1>> ELSE MonthAndDay(n - MonthDays(m), m + 1)

DateOfDay(year, n) == <<year>> \o MonthAndDay(n, 1)

\* p["openedAt"].replace('Z', '+00:00'): the designator becomes an offset.
ReplaceZ(openedAt) ==
    [openedAt EXCEPT !.zone = IF @ = "Z" THEN "+00:00" ELSE @]

\* datetime.fromisoformat: an aware datetime, the fields as written and
\* the UTC offset in hours.
FromIsoFormat(t) ==
    [date |-> t.date, hour |-> t.hour,
     utcoffset |-> CASE t.zone = "+00:00" -> 0 [] t.zone = "+09:00" -> 9]

\* datetime.date(): the calendar date of the datetime's own fields.
DateOf(dt) == dt.date

\* datetime.astimezone() to a zone `zone` hours east of UTC.
AsTimezone(dt, zone) ==
    LET h == DayOfYear(dt.date) * 24 + dt.hour - dt.utcoffset + zone
    IN  [date |-> DateOfDay(dt.date[1], h \div 24), hour |-> h % 24,
         utcoffset |-> zone]

\* Mutant: the datetime is converted to the local zone before .date().
day_bought_local(openedAt, zone) ==
    DateOf(AsTimezone(FromIsoFormat(ReplaceZ(openedAt)), zone))

\* The "day bought" column of one row.  `zone` is the process-local
\* timezone, which the expression never consults.
day_bought(openedAt, zone) == DateOf(FromIsoFormat(ReplaceZ(openedAt)))

----------------------------------------------------------------------------
(* portfolio_to_df *)

\* The rows list built by the loop, in API order.
RowsOf(positions, zone) ==
    [ i \in 1..Len(positions) |->
        [symbol |-> Symbols[i],
         value  |-> FormatValue(positions[i].currentValue),
         profit |-> ParseFloat(positions[i].gain),
         day    |-> day_bought(positions[i].openedAt, zone)] ]

Perms(n) == { f \in [1..n -> 1..n] : \A i, j \in 1..n : f[i] = f[j] => i = j }

\* df.sort_values(by="value", ascending=False) with the default
\* kind='quicksort': every arrangement of the rows whose 'value' strings
\* are non-increasing; the order among equal keys is not determined.
sort_values(rows) ==
    { [ i \in 1..Len(rows) |-> rows[f[i]] ] :
        f \in { g \in Perms(Len(rows)) :
                  \A i, j \in 1..Len(rows) :
                     i < j => ~StrLess(rows[g[i]].value, rows[g[j]].value) } }

\* The frames portfolio_to_df can return; <<>> is the empty DataFrame.
portfolio_to_df(portfolio_data, zone) ==
    IF portfolio_data.positions = <<>> THEN { <<>> }
    ELSE sort_values(RowsOf(portfolio_data.positions, zone))

----------------------------------------------------------------------------
(* df_to_html *)

\* One <tr> of build_rows: the row class, the symbol and value cells, the
\* profit cell (its span class and text) and the "bought:" cell.
build_row(row) ==
    [class  |-> IF GtZero(row.profit) THEN "tr-positive"
                ELSE IF LtZero(row.profit) THEN "tr-negative" ELSE "",
     symbol |-> row.symbol,
     value  |-> row.value,
     span   |-> IF GtZero(row.profit) THEN "gain-positive"
                ELSE IF LtZero(row.profit) THEN "gain-negative" ELSE "",
     text   |-> FormatProfit(row.profit),
     bought |-> row.day]

\* Mutant: rows without a row class are left out.
build_rows_skip_neutral(d) ==
    LET all == [ i \in 1..Len(d) |-> build_row(d[i]) ]
    IN  SelectSeq(all, LAMBDA r : r.class # "")

build_rows(d) == [ i \in 1..Len(d) |-> build_row(d[i]) ]

\* Mutant: the header and the table are built for an empty frame too.
html_content_no_empty_case(d, total, zone) ==
    [h2 |-> <<>>, style |-> TRUE,
     header |-> << [h1 |-> <<"$", total>>,
                    timestamp |-> [clock |-> "now", utcoffset |-> zone]] >>,
     table  |-> << [th |-> <<"symbol", "value", "profit", "day bought">>,
                    tr |-> [ i \in 1..Len(d) |-> build_row(d[i]) ]] >>]

\* html_content: the notice alone for an empty frame, else the style
\* sheet, the header (total and local render time) and the table.
html_content(d, total, zone) ==
    IF d = <<>>
    THEN [h2 |-> <<"No positions found">>, style |-> FALSE,
          header |-> <<>>, table |-> <<>>]
    ELSE [h2 |-> <<>>, style |-> TRUE,
          header |-> << [h1 |-> <<"$", total>>,
                         timestamp |-> [clock |-> "now", utcoffset |-> zone]] >>,
          table  |-> << [th |-> <<"symbol", "value", "profit", "day bought">>,
                         tr |-> build_rows(d)] >>]

\* Mutant: an empty frame returns before the file is opened.
df_to_html_skip_empty(d, total, zone) ==
    IF d = <<>> THEN <<>> ELSE << html_content(d, total, zone) >>

\* What df_to_html writes: open(filename, "w") once, one f.write.
df_to_html(d, total, zone) == << html_content(d, total, zone) >>

----------------------------------------------------------------------------
(* HTTP *)

\* Mutant: only server errors raise.
raise_for_status_5xx(status) == 500 <= status /\ status < 600

\* requests' Response.raise_for_status(): raises on 4xx and 5xx.
raise_for_status(status) == 400 <= status /\ status < 600

\* What a requests call can come back with: no response at all
\* (ConnectionError, Timeout) or a final response with a status and a body.
\* 300 stands for a 3xx answer that requests does not follow.
Statuses == {200, 300, 404, 500}

AuthResponses ==
    { [method |-> "POST", kind |-> "error", status |-> 0, body |-> ""] }
    \cup [method : {"POST"}, kind : {"response"}, status : Statuses,
          body : {"notjson", "nokey", "token"}]

FetchResponses ==
    { [method |-> "GET", kind |-> "error", status |-> 0, body |-> ""] }
    \cup [method : {"GET"}, kind : {"response"}, status : Statuses,
          body : {"notjson", "json"}]

\* The exception the three lines request / raise_for_status / json() end in,
\* or "ok".
HttpOutcome(r) ==
    IF r.kind = "error" THEN "ConnectionError"
    ELSE IF raise_for_status(r.status) THEN "HTTPError"
    ELSE IF r.body = "notjson" THEN "JSONDecodeError"
    ELSE IF r.body = "nokey" THEN "KeyError"
    ELSE "ok"

\* Snapshots a response of the given status carries (a 3xx answer is given
\* the snapshots without positions only).
BodiesOf(status) ==
    IF status = 200 THEN Portfolios
    ELSE { pf \in Portfolios : pf.positions = <<>> /\ pf.haskey }

----------------------------------------------------------------------------
(* The run *)

VARIABLES
    secret,            \* PUBLIC_SECRET
    tz,                \* the process-local timezone
    pc,                \* where the run is
    err,               \* the exception that ended the run, "" if none
    calls,             \* network calls and file writes so far, in order
    response,          \* the last HTTP exchange
    token,             \* the access token, "" before it is obtained
    portfolio_data,    \* the parsed portfolio JSON
    total_port_value,  \* the STOCK total, "" before it is read
    df,                \* the DataFrame
    file               \* <<>> while index.html is untouched, else its content

vars == <<secret, tz, pc, err, calls, response, token, portfolio_data,
          total_port_value, df, file>>

NoResponse == [method |-> "", kind |-> "none", status |-> 0, body |-> ""]

Init ==
    /\ secret \in Secrets
    /\ tz \in LocalZones
    /\ pc = "import"
    /\ err = ""
    /\ calls = <<>>
    /\ response = NoResponse
    /\ token = ""
    /\ portfolio_data = NoPortfolio
    /\ total_port_value = ""
    /\ df = <<>>
    /\ file = <<>>

\* Mutant: `if PUBLIC_SECRET is None`, which lets the empty string through.
SecretMissing_is_none(s) == ~s.set

\* `if not PUBLIC_SECRET`: None and "" are falsy.
SecretMissing(s) == ~s.set \/ s.val = ""

Raise(e) == pc' = "raised" /\ err' = e

\* Module level: load the secret, raise ValueError without one.
Import ==
    /\ pc = "import"
    /\ IF SecretMissing(secret) THEN Raise("ValueError")
       ELSE pc' = "main" /\ err' = err
    /\ UNCHANGED <<secret, tz, calls, response, token, portfolio_data,
                   total_port_value, df, file>>

\* main(): token = get_access_token()
GetAccessToken ==
    /\ pc = "main"
    /\ \E r \in AuthResponses :
         /\ response' = r
         /\ calls' = Append(calls, "POST")
         /\ IF HttpOutcome(r) = "ok"
            THEN pc' = "fetch" /\ err' = err /\ token' = "accessToken"
            ELSE Raise(HttpOutcome(r)) /\ token' = token
    /\ UNCHANGED <<secret, tz, portfolio_data, total_port_value, df, file>>

\* main(): portfolio_data = get_portfolio(token)
GetPortfolio ==
    /\ pc = "fetch"
    /\ \E r \in FetchResponses :
         /\ response' = r
         /\ calls' = Append(calls, "GET")
         /\ IF HttpOutcome(r) = "ok"
            THEN /\ pc' = "total" /\ err' = err
                 /\ portfolio_data' \in BodiesOf(r.status)
            ELSE Raise(HttpOutcome(r)) /\ portfolio_data' = portfolio_data
    /\ UNCHANGED <<secret, tz, token, total_port_value, df, file>>

StockEntries(equity) == SelectSeq(equity, LAMBDA item : item.type = "STOCK")

\* main(): next(item['value'] for item in equity if item['type'] == 'STOCK')
TotalPortValue ==
    /\ pc = "total"
    /\ IF StockEntries(portfolio_data.equity) = <<>>
       THEN Raise("StopIteration") /\ total_port_value' = total_port_value
       ELSE /\ pc' = "to_df" /\ err' = err
            /\ total_port_value' = Head(StockEntries(portfolio_data.equity)).value
    /\ UNCHANGED <<secret, tz, calls, response, token, portfolio_data, df, file>>

\* main(): df = portfolio_to_df(portfolio_data)
PortfolioToDf ==
    /\ pc = "to_df"
    /\ df' \in portfolio_to_df(portfolio_data, tz)
    /\ pc' = "to_html"
    /\ UNCHANGED <<secret, tz, err, calls, response, token, portfolio_data,
                   total_port_value, file>>

\* main(): df_to_html(df, total_port_value)
DfToHtml ==
    /\ pc = "to_html"
    /\ LET w == df_to_html(df, total_port_value, tz)
       IN  /\ file' = IF w = <<>> THEN file ELSE <<w[Len(w)]>>
           /\ calls' = calls \o [ i \in 1..Len(w) |-> "WRITE" ]
    /\ pc' = "done"
    /\ UNCHANGED <<secret, tz, err, response, token, portfolio_data,
                   total_port_value, df>>

Next ==
    \/ Import
    \/ GetAccessToken
    \/ GetPortfolio
    \/ TotalPortValue
    \/ PortfolioToDf
    \/ DfToHtml

Spec == Init /\ [][Next]_vars

----------------------------------------------------------------------------
(* Vocabulary of the properties *)

Written == file # <<>>

\* The <tr> blocks of the written report, in document order.
Rendered ==
    IF Written /\ file[1].table # <<>> THEN file[1].table[1].tr ELSE <<>>

\* The API position a rendered row shows, by its symbol.
PosIndex(row) == CHOOSE i \in 1..Len(Symbols) : Symbols[i] = row.symbol
PosOf(row) == portfolio_data.positions[PosIndex(row)]

\* The gain percentage as a number (thousandths of a percent).
GainValue(g) == IF g.neg THEN 0 - g.mag ELSE g.mag

Count(seq, P(_)) == Cardinality({ i \in 1..Len(seq) : P(seq[i]) })

IsUp(r) == r.class = "tr-positive" /\ r.span = "gain-positive"
IsDown(r) == r.class = "tr-negative" /\ r.span = "gain-negative"
IsNeutral(r) == r.class = "" /\ r.span = ""

\* The run received a portfolio: both calls went through.
Fetched == response.method = "GET" /\ HttpOutcome(response) = "ok"

----------------------------------------------------------------------------
(* C1 *)

\* C1: the rendered rows are in numeric descending order of the positions'
\* currentValue: a row never precedes a row of greater currentValue.
C1_NumericDescending ==
    \A i, j \in 1..Len(Rendered) :
        i < j => PosOf(Rendered[i]).currentValue >= PosOf(Rendered[j]).currentValue

----------------------------------------------------------------------------
(* C2 *)

\* C2: with no STOCK entry in 'equity', main() does not raise: the total is
\* a zero value and the finished run has written a report whose header (if
\* it has one) shows that zero.
C2_MissingStockTotalIsZero ==
    (Fetched /\ StockEntries(portfolio_data.equity) = <<>>) =>
        /\ pc # "raised"
        /\ pc = "done" =>
             /\ Written
             /\ total_port_value \in {"0", "0.0", "0.00"}
             /\ \A k \in 1..Len(file[1].header) :
                    file[1].header[k].h1 = <<"$", total_port_value>>

----------------------------------------------------------------------------
(* C3 *)

\* C3: with PUBLIC_SECRET unset or empty the run makes no network call and
\* writes no file: it is either still at the import or has ended in the
\* ValueError.
C3_NoCallWithoutSecret ==
    (~secret.set \/ secret.val = "") =>
        /\ calls = <<>>
        /\ ~Written
        /\ pc \in {"import", "raised"}
        /\ pc = "raised" => err = "ValueError"

\* C3 witness: the empty (set, but "") secret has ended the run.
C3_Witness ==
    secret.set /\ secret.val = "" /\ pc = "raised" /\ err = "ValueError"
    /\ calls = <<>>

----------------------------------------------------------------------------
(* C4 *)

\* What the run has done once an exchange has failed: nothing but the calls
\* up to the failed one, each made once, and no file.
AbortedAt(r) ==
    /\ pc = "raised"
    /\ err # ""
    /\ ~Written
    /\ calls = IF r.method = "POST" THEN <<"POST">> ELSE <<"POST", "GET">>

----------------------------------------------------------------------------
(* C5 *)

\* C5: rendered rows of equal currentValue are in API order.
C5_TiesKeepApiOrder ==
    \A i, j \in 1..Len(Rendered) :
        (i < j /\ PosOf(Rendered[i]).currentValue = PosOf(Rendered[j]).currentValue)
            => PosIndex(Rendered[i]) < PosIndex(Rendered[j])

----------------------------------------------------------------------------
(* C6 *)

\* C6: the indicator of every rendered row follows the sign of the gain:
\* up above zero, down below, and at exactly zero neutral with the text
\* "+0.00%".
C6_SignDecidesIndicator ==
    \A i \in 1..Len(Rendered) :
        LET r == Rendered[i]
            g == GainValue(PosOf(r).gain)
        IN  /\ g > 0 => IsUp(r)
            /\ g < 0 => IsDown(r)
            /\ g = 0 => IsNeutral(r) /\ r.text = <<"+", "0", ".", "0", "0", "%">>

----------------------------------------------------------------------------
(* C7 *)

\* C7: a report of a non-empty position list has exactly one row per
\* position (every position's symbol once), and its up, down and neutral
\* rows add up to the number of positions.
C7_OneRowPerPosition ==
    (Written /\ portfolio_data.positions # <<>>) =>
        LET n == Len(portfolio_data.positions)
        IN  /\ Len(Rendered) = n
            /\ \A p \in 1..n : Count(Rendered, LAMBDA r : r.symbol = Symbols[p]) = 1
            /\ Count(Rendered, IsUp) + Count(Rendered, IsDown)
                 + Count(Rendered, IsNeutral) = n

\* C7 witness: a written report of MaxLen positions, one of them neutral.
C7_Witness ==
    /\ Written /\ Len(portfolio_data.positions) = MaxLen
    /\ Len(Rendered) = MaxLen
    /\ Count(Rendered, IsNeutral) >= 1 /\ Count(Rendered, IsUp) >= 1

----------------------------------------------------------------------------
(* C8 *)

\* C8: the report written for a snapshot without positions is the "No
\* positions found" notice alone: no style sheet, header or table.
C8_EmptyIsNoticeOnly ==
    (Written /\ portfolio_data.positions = <<>>) =>
        /\ file[1].h2 = <<"No positions found">>
        /\ file[1].header = <<>>
        /\ file[1].table = <<>>
        /\ ~file[1].style

\* C8 witness: the 'positions' key was absent, the total was 1234.56, and
\* the notice was written.
C8_Witness ==
    /\ Written /\ ~portfolio_data.haskey
    /\ total_port_value = "1234.56"
    /\ file[1].h2 = <<"No positions found">>

----------------------------------------------------------------------------
(* C9 *)

\* C9: the calls of a run are always a prefix of POST, GET, WRITE; the GET
\* is made with the token obtained, the write after the GET has returned a
\* portfolio; a run that is done has made all three and the file holds the
\* one content written.
C9_OnePostOneGetOneWrite ==
    /\ \E k \in 0..3 : calls = SubSeq(<<"POST", "GET", "WRITE">>, 1, k)
    /\ Len(calls) >= 2 => token # ""
    /\ Len(calls) = 3 => Fetched
    /\ pc = "done" => Len(calls) = 3 /\ Len(file) = 1
    /\ Written => Len(calls) = 3

\* C9 witness: a finished run over an empty snapshot.
C9_Witness ==
    /\ pc = "done" /\ calls = <<"POST", "GET", "WRITE">>
    /\ df = <<>> /\ Written

----------------------------------------------------------------------------
(* C10 *)

\* The UTC calendar date of the instant a 'Z' timestamp names.
UtcDateOfZ(openedAt) ==
    DateOfDay(openedAt.date[1], (DayOfYear(openedAt.date) * 24 + openedAt.hour) \div 24)

\* C10: the "bought" date of a position opened at a 'Z' timestamp is the
\* UTC date of that instant, in every local timezone.
C10_BoughtIsUtcDate ==
    \A i \in 1..Len(Rendered) :
        PosOf(Rendered[i]).openedAt.zone = "Z"
            => Rendered[i].bought = UtcDateOfZ(PosOf(Rendered[i]).openedAt)

\* C10 witness: west of UTC, 2023-05-01T00:00:00Z is rendered 2023-05-01.
C10_Witness ==
    /\ tz = -8
    /\ \E i \in 1..Len(Rendered) :
         /\ PosOf(Rendered[i]).openedAt = [date |-> <<2023, 5, 1>>, hour |-> 0, zone |-> "Z"]
         /\ Rendered[i].bought = <<2023, 5, 1>>

====
